---- MODULE Spec2Model ----
(***************************************************************************)
(* PPOAgent.train of reinforcement_learning/algorithms/ppo/ppo.py as a     *)
(* state machine.  The network, the environment, the evaluator and the     *)
(* learning-rate scheduler are black boxes: every value they return is     *)
(* drawn from a finite set held in the variable blackbox.                  *)
(*                                                                         *)
(* Numbers.  Rewards, value predictions, log-probabilities, gamma and      *)
(* gae_lambda are integers and the arithmetic on them is exact, so the     *)
(* statements about returns are statements of real arithmetic; float       *)
(* rounding is not modelled.  Ratios and epsilon are fixed-point numbers   *)
(* in units of 1/Scale.  A tensor of shape                                 *)
(* (rows, n_worker, 1) is a function [0..rows-1 -> [0..n_worker-1 -> Int]];*)
(* one observation space is modelled (the code treats every space alike),  *)
(* an observation is an integer and 0 is the all-zero observation.         *)
(***************************************************************************)
EXTENDS Integers, Sequences, FiniteSets, TLC

VARIABLES
    cfg,                \* constructor and train arguments
    blackbox,           \* what the collaborators may return
    pc,                 \* position in train
    training,           \* mode of model.net (TRUE: train, FALSE: eval)
    observations, rewards, value_predictions, old_log_probs, returns,
    actions, masks, advantages, advantages_nan,
    episode_rewards, final_rewards,
    best_score, steps, i, step, epoch,
    sampler,            \* the batches of the running epoch not yet consumed
    epoch_batches,      \* every batch the sampler yields in this iteration's
                        \* latest epoch
    minibatch,          \* the tensors and the loss of this iteration's latest
                        \* minibatch
    lr_zero,            \* optimizer.param_groups[0]['lr'] == 0
    saved,              \* the files written by model.save_network, in order
    env_state, env_done,\* per worker: what env.reset/env.step returned last
    episode_sum, episode_last, \* per worker: rewards of the running episode,
                        \* total of the episode that finished last
    env_steps, updates, \* env.step and model.update calls of this iteration
    completed,          \* update iterations run to their end
    evaluations,        \* the evaluator.evaluate calls made so far
    fwd_value,          \* the model.forward_value call: argument and result
    stopped             \* train left the loop through the break of line 206

vars == <<cfg, blackbox, pc, training, observations, rewards,
          value_predictions, old_log_probs, returns, actions, masks,
          advantages, advantages_nan, episode_rewards, final_rewards,
          best_score, steps, i, step, epoch, sampler, epoch_batches,
          minibatch, lr_zero, saved, env_state, env_done, episode_sum,
          episode_last, env_steps, updates, completed, evaluations,
          fwd_value, stopped>>

----------------------------------------------------------------------------
(* Bounds of the model *)

MaxTransitions == 4
MaxRollout == 3
MaxEpisodeRollout == 2
MaxUpdates == 3
MaxEpochs == 2
MaxBatch == 2
MaxEvalInterval == 2
MaxScore == 2
MaxDiscount == 2
Scale == 100

----------------------------------------------------------------------------
(* Tensors *)

Workers(c) == 0 .. (c.n_worker - 1)

Zeros(rows, c) == [s \in 0 .. (rows - 1) |-> [w \in Workers(c) |-> 0]]

ZeroVector(c) == [w \in Workers(c) |-> 0]

\* tensor[:-1]
DropLastRow(tensor, rows) == [s \in 0 .. (rows - 2) |-> tensor[s]]

RECURSIVE RowSeq(_, _, _)
RowSeq(row, w, n) ==
    IF w = n THEN <<>> ELSE <<row[w]>> \o RowSeq(row, w + 1, n)

\* tensor.view(-1, 1): the rows of a contiguous tensor laid out one after
\* the other
RECURSIVE ViewFrom(_, _, _, _)
ViewFrom(tensor, r, rows, n) ==
    IF r = rows THEN <<>>
    ELSE RowSeq(tensor[r], 0, n) \o ViewFrom(tensor, r + 1, rows, n)

View(tensor, rows, n) == ViewFrom(tensor, 0, rows, n)

\* flat[indices]
Gather(flat, indices) == [p \in 1 .. Len(indices) |-> flat[indices[p] + 1]]

RECURSIVE SumSeq(_)
SumSeq(s) == IF Len(s) = 0 THEN 0 ELSE Head(s) + SumSeq(Tail(s))

----------------------------------------------------------------------------
(* Numbers *)

Min(a, b) == IF a <= b THEN a ELSE b

\* torch.exp on the differences of log-probabilities the model meets, in
\* units of 1/Scale
Exp(d) ==
    CASE d = 0 -> Scale
      [] d = 1 -> (2718 * Scale) \div 1000
      [] d = 2 -> (7389 * Scale) \div 1000
      [] d = -1 -> (368 * Scale) \div 1000
      [] d = -2 -> (135 * Scale) \div 1000

----------------------------------------------------------------------------
(* The pure computations of train *)

\* line 108: 0.0 if done_ else 1.0
Mask(done) == IF done THEN 0 ELSE 1

\* line 119: state_tensor_list[j] *= pt_masks
MaskedState(state, mask) == state * mask

RewardBookkeepingNoReset(final, episode, mask) ==
    [final |-> final * mask + (1 - mask) * episode, episode |-> episode]

\* lines 131-133, one worker: [final_rewards, episode_rewards] after the step;
\* episode is episode_rewards after line 106
RewardBookkeeping(final, episode, mask) ==
    LET final1 == final * mask
        final2 == final1 + (1 - mask) * episode
    IN  [final |-> final2, episode |-> episode * mask]

\* line 140, one worker
Delta(c, reward, next_value, mask, value) ==
    reward + c.gamma * next_value * mask - value

GaeStepUnmasked(c, delta, mask, gae) ==
    delta + c.gamma * c.gae_lambda * gae

\* line 141, one worker
GaeStep(c, delta, mask, gae) ==
    delta + c.gamma * c.gae_lambda * mask * gae

\* lines 137-142: for step in reversed(range(t_max)), from `s` down to 0
RECURSIVE GaeLoop(_, _, _, _, _, _, _)
GaeLoop(c, s, gae, ret, rew, vp, msk) ==
    IF s < 0 THEN ret
    ELSE LET gae1 == [w \in Workers(c) |->
                         GaeStep(c, Delta(c, rew[s][w], vp[s + 1][w],
                                          msk[s][w], vp[s][w]),
                                 msk[s][w], gae[w])]
             ret1 == [ret EXCEPT ![s] =
                         [w \in Workers(c) |-> gae1[w] + vp[s][w]]]
         IN  GaeLoop(c, s - 1, gae1, ret1, rew, vp, msk)

\* line 144: returns[:-1] - value_predictions[:-1]
RawAdvantages(c, ret, vp) ==
    [s \in 0 .. (c.t_max - 1) |->
        [w \in Workers(c) |-> ret[s][w] - vp[s][w]]]

\* line 145: (advantages - advantages.mean()) / advantages.std().  std is
\* the unbiased one: NaN for a single element, 0 when all elements are
\* equal, and every quotient is then NaN.  Otherwise std > 0 and
\* (adv - mean) / std = (n * adv - sum) / (n * std): the model keeps the
\* integer n * adv - sum, the normalised advantage in units of
\* 1 / (n * std), a positive unit shared by the whole rollout.
Normalize(c, adv) ==
    LET n    == c.t_max * c.n_worker
        sum  == SumSeq(View(adv, c.t_max, c.n_worker))
        d    == [s \in 0 .. (c.t_max - 1) |->
                    [w \in Workers(c) |-> n * adv[s][w] - sum]]
        ss   == SumSeq([k \in 1 .. n |-> View(d, c.t_max, c.n_worker)[k]
                                         * View(d, c.t_max, c.n_worker)[k]])
    IN  IF n = 1 \/ ss = 0
        THEN [nan |-> TRUE, a |-> Zeros(c.t_max, c)]
        ELSE [nan |-> FALSE, a |-> d]

\* SubsetRandomSampler(list(range(n))): any order of the indices
SubsetRandomSampler(n) ==
    {p \in [1 .. n -> 0 .. (n - 1)] :
        \A a, b \in 1 .. n : a # b => p[a] # p[b]}

SamplerBatchSizeOneWorker(c) == c.batch_size

\* line 148: the size handed to BatchSampler
SamplerBatchSize(c) == c.batch_size * c.n_worker

DropLastSet == TRUE

\* line 148: drop_last=False
DropLast == FALSE

\* BatchSampler.__iter__: fill a batch, yield it when full, and at the end
\* yield what is left unless drop_last
RECURSIVE BatchSampler(_, _, _, _)
BatchSampler(order, batch, size, drop_last) ==
    IF Len(order) = 0
    THEN IF Len(batch) > 0 /\ ~drop_last THEN <<batch>> ELSE <<>>
    ELSE LET batch1 == Append(batch, Head(order))
         IN  IF Len(batch1) = size
             THEN <<batch1>> \o BatchSampler(Tail(order), <<>>, size, drop_last)
             ELSE BatchSampler(Tail(order), batch1, size, drop_last)

\* ratio.clamp(lo, hi)
Clamp(x, lo, hi) == IF x < lo THEN lo ELSE IF x > hi THEN hi ELSE x

\* line 161
Ratio(new_log_prob, old_log_prob) == Exp(new_log_prob - old_log_prob)

\* line 165
Surr1(ratio, advantage) == ratio * advantage

\* line 166
Surr2(c, ratio, advantage) ==
    Clamp(ratio, Scale - c.epsilon, Scale + c.epsilon) * advantage

ObjectiveUnclipped(c, ratio, advantage) == Surr1(ratio, advantage)

\* line 168, per sample: torch.min(surr1, surr2)
Objective(c, ratio, advantage) ==
    Min(Surr1(ratio, advantage), Surr2(c, ratio, advantage))

\* line 168: -torch.min(surr1, surr2).mean(), the fraction num/den
ActionLoss(objective) ==
    [num |-> 0 - SumSeq(objective), den |-> Len(objective)]

\* line 62
InitialBestScore(c) ==
    IF c.high_is_better THEN [inf |-> -1, v |-> 0] ELSE [inf |-> 1, v |-> 0]

\* lines 208-209
Improvement(c, score, best) ==
    \/ c.high_is_better /\ (best.inf = -1 \/ (best.inf = 0 /\ score >= best.v))
    \/ ~c.high_is_better /\ (best.inf = 1 \/ (best.inf = 0 /\ score <= best.v))

\* line 196
EvalDue(c, iter) == c.evaluator /\ iter % c.eval_interval = 0

\* line 198: int(i / eval_interval)
EvalIndex(c, iter) == iter \div c.eval_interval

ModeLeftInEval == FALSE

\* line 199
ModeAfterEvaluate == TRUE

\* lines 202-206
StopsTraining(c, lr0) == c.score_name /\ c.lr_scheduler /\ lr0

\* lines 247-254: model.save_network(model_path)
store_model(files, name) == Append(files, name)

BestModelFile == [file |-> "best_model.pt", update |-> 0]

\* line 218
UpdateModelFile(iter) == [file |-> "model_update.pt", update |-> iter]

----------------------------------------------------------------------------
(* Arguments and collaborators *)

\* <<n_worker, t_max>> with at most n transitions in a rollout
Shapes(n) == {sh \in (1 .. n) \X (1 .. n) : sh[1] * sh[2] <= n}

\* __init__ (lines 13-14) and train (lines 32-33)
Config(sh, bs, pe, g, l, eps, mu, ev, ei, lrs, sn, hib) ==
    [n_worker |-> sh[1], t_max |-> sh[2], batch_size |-> bs, ppo_epoch |-> pe,
     gamma |-> g, gae_lambda |-> l, epsilon |-> eps, max_updates |-> mu,
     evaluator |-> ev, eval_interval |-> ei, lr_scheduler |-> lrs,
     score_name |-> sn, high_is_better |-> hib, dump_interval |-> 2]

\* One worker's share of a rollout step: what the network returns for it
\* (value, sampled action, its log-probability) and what env.step returns
\* for it (state, reward, done)
Outcome(o, r, d, v, a, lp) ==
    [obs |-> o, reward |-> r, done |-> d, value |-> v, action |-> a,
     log_prob |-> lp]

PlainOutcome == Outcome(1, 0, FALSE, 0, 0, 0)

Collaborators(outcomes, reset_obs, fwd_values, new_log_probs, scores) ==
    [outcomes |-> outcomes, reset_obs |-> reset_obs,
     fwd_values |-> fwd_values, new_log_probs |-> new_log_probs,
     scores |-> scores]

EmptyMinibatch ==
    [indices |-> <<>>, states_batch |-> <<>>, actions_batch |-> <<>>,
     return_batch |-> <<>>, old_log_probs_batch |-> <<>>,
     advantage_target |-> <<>>, new_log_probs |-> <<>>, ratio |-> <<>>,
     objective |-> <<>>,
     nan |-> FALSE, action_loss |-> [num |-> 0, den |-> 1]]

\* The state when train is entered: lines 40-59 allocate zero tensors
InitWith(configs, collaborators) ==
    /\ cfg \in configs
    /\ blackbox \in collaborators
    /\ pc = "start"
    /\ training \in BOOLEAN
    /\ observations = Zeros(cfg.t_max + 1, cfg)
    /\ rewards = Zeros(cfg.t_max, cfg)
    /\ value_predictions = Zeros(cfg.t_max + 1, cfg)
    /\ old_log_probs = Zeros(cfg.t_max + 1, cfg)
    /\ returns = Zeros(cfg.t_max + 1, cfg)
    /\ actions = Zeros(cfg.t_max, cfg)
    /\ masks = Zeros(cfg.t_max, cfg)
    /\ advantages = Zeros(cfg.t_max, cfg)
    /\ advantages_nan = FALSE
    /\ episode_rewards = ZeroVector(cfg)
    /\ final_rewards = ZeroVector(cfg)
    /\ best_score = InitialBestScore(cfg)
    /\ steps = 0
    /\ i = 0
    /\ step = 0
    /\ epoch = 0
    /\ sampler = <<>>
    /\ epoch_batches = <<>>
    /\ minibatch = EmptyMinibatch
    /\ lr_zero = FALSE
    /\ saved = <<>>
    /\ env_state = ZeroVector(cfg)
    /\ env_done = [w \in Workers(cfg) |-> FALSE]
    /\ episode_sum = ZeroVector(cfg)
    /\ episode_last = ZeroVector(cfg)
    /\ env_steps = 0
    /\ updates = 0
    /\ completed = 0
    /\ evaluations = <<>>
    /\ fwd_value = [arg |-> ZeroVector(cfg), result |-> ZeroVector(cfg)]
    /\ stopped = FALSE

----------------------------------------------------------------------------
(* The steps of train *)

\* lines 36-76: net.train(), env.reset(), the first observation stored
TrainSetup ==
    /\ pc = "start"
    /\ training' = TRUE
    /\ \E first \in [Workers(cfg) -> blackbox.reset_obs] :
          /\ observations' = [observations EXCEPT ![0] = first]
          /\ env_state' = first
    /\ i' = IF cfg.max_updates >= 1 THEN 1 ELSE 0
    /\ pc' = IF cfg.max_updates >= 1 THEN "rollout" ELSE "done"
    /\ UNCHANGED <<cfg, blackbox, rewards, value_predictions, old_log_probs,
                   returns, actions, masks, advantages, advantages_nan,
                   episode_rewards, final_rewards, best_score, steps, step,
                   epoch, sampler, epoch_batches, minibatch, lr_zero, saved,
                   env_done, episode_sum, episode_last, env_steps, updates,
                   completed, evaluations, fwd_value, stopped>>

\* line 88: range(self.t_max)
RolloutLength(c) == c.t_max

\* lines 88-133: one pass of the rollout loop, every worker at once
RolloutStep ==
    /\ pc = "rollout"
    /\ step < RolloutLength(cfg)
    /\ \E o \in [Workers(cfg) -> blackbox.outcomes] :
          LET mask == [w \in Workers(cfg) |-> Mask(o[w].done)]
              episode == [w \in Workers(cfg) |->
                             episode_rewards[w] + o[w].reward]
              book == [w \in Workers(cfg) |->
                          RewardBookkeeping(final_rewards[w], episode[w],
                                            mask[w])]
          IN  /\ actions' = [actions EXCEPT ![step] =
                                [w \in Workers(cfg) |-> o[w].action]]
              /\ value_predictions' = [value_predictions EXCEPT ![step] =
                                [w \in Workers(cfg) |-> o[w].value]]
              /\ old_log_probs' = [old_log_probs EXCEPT ![step] =
                                [w \in Workers(cfg) |-> o[w].log_prob]]
              /\ rewards' = [rewards EXCEPT ![step] =
                                [w \in Workers(cfg) |-> o[w].reward]]
              /\ masks' = [masks EXCEPT ![step] = mask]
              /\ observations' = [observations EXCEPT ![step + 1] =
                                [w \in Workers(cfg) |->
                                    MaskedState(o[w].obs, mask[w])]]
              /\ final_rewards' = [w \in Workers(cfg) |-> book[w].final]
              /\ episode_rewards' = [w \in Workers(cfg) |-> book[w].episode]
              /\ env_state' = [w \in Workers(cfg) |-> o[w].obs]
              /\ env_done' = [w \in Workers(cfg) |-> o[w].done]
              /\ episode_sum' = [w \in Workers(cfg) |->
                                    IF o[w].done THEN 0
                                    ELSE episode_sum[w] + o[w].reward]
              /\ episode_last' = [w \in Workers(cfg) |->
                                    IF o[w].done
                                    THEN episode_sum[w] + o[w].reward
                                    ELSE episode_last[w]]
    /\ steps' = steps + 1
    /\ env_steps' = env_steps + 1
    /\ step' = step + 1
    /\ pc' = IF step + 1 < RolloutLength(cfg) THEN "rollout" ELSE "returns"
    /\ UNCHANGED <<cfg, blackbox, training, returns, advantages,
                   advantages_nan, best_score, i, epoch, sampler,
                   epoch_batches, minibatch, lr_zero, saved, updates,
                   completed, evaluations, fwd_value, stopped>>

\* where the pass over the batches of an epoch leaves train
AfterBatches(c, ep) == IF ep < c.ppo_epoch THEN "epoch" ELSE "save"

\* lines 136-145: the last value prediction, the returns, the advantages
CalcReturns ==
    /\ pc = "returns"
    /\ \E last \in [Workers(cfg) -> blackbox.fwd_values] :
          LET vp == [value_predictions EXCEPT ![cfg.t_max] = last]
              ret == GaeLoop(cfg, cfg.t_max - 1, ZeroVector(cfg), returns,
                             rewards, vp, masks)
              norm == Normalize(cfg, RawAdvantages(cfg, ret, vp))
          IN  /\ value_predictions' = vp
              /\ returns' = ret
              /\ advantages' = norm.a
              /\ advantages_nan' = norm.nan
              /\ fwd_value' = [arg |-> observations[cfg.t_max],
                               result |-> last]
    /\ epoch' = 0
    /\ pc' = AfterBatches(cfg, 0)
    /\ UNCHANGED <<cfg, blackbox, training, observations, rewards,
                   old_log_probs, actions, masks, episode_rewards,
                   final_rewards, best_score, steps, i, step, sampler,
                   epoch_batches, minibatch, lr_zero, saved, env_state,
                   env_done, episode_sum, episode_last, env_steps, updates,
                   completed, evaluations, stopped>>

\* lines 146-148: a new sampler over the transitions of the rollout.  What
\* the previous epoch's last minibatch left behind is not read again: the
\* model starts the epoch without it.
StartEpoch ==
    /\ pc = "epoch"
    /\ \E order \in SubsetRandomSampler(cfg.n_worker * cfg.t_max) :
          LET batches == BatchSampler(order, <<>>, SamplerBatchSize(cfg),
                                      DropLast)
          IN  /\ sampler' = batches
              /\ epoch_batches' = batches
              /\ minibatch' = IF batches = <<>> THEN minibatch
                              ELSE EmptyMinibatch
              /\ epoch' = IF batches = <<>> THEN epoch + 1 ELSE epoch
              /\ pc' = IF batches = <<>>
                       THEN AfterBatches(cfg, epoch + 1)
                       ELSE "minibatch"
    /\ UNCHANGED <<cfg, blackbox, training, observations, rewards,
                   value_predictions, old_log_probs, returns, actions, masks,
                   advantages, advantages_nan, episode_rewards,
                   final_rewards, best_score, steps, i, step, lr_zero, saved,
                   env_state, env_done, episode_sum, episode_last, env_steps,
                   updates, completed, evaluations, fwd_value, stopped>>

\* line 151: obs[:-1].view(-1, *obs.size()[2:])
StatesView(c, obs) == View(DropLastRow(obs, c.t_max + 1), c.t_max, c.n_worker)

\* line 153: actions.view(-1, 1)
ActionsView(c, act) == View(act, c.t_max, c.n_worker)

\* line 154: returns[:-1].view(-1, 1)
ReturnsView(c, ret) == View(DropLastRow(ret, c.t_max + 1), c.t_max, c.n_worker)

\* old_log_probs[1:] flattened
OldLogProbsViewShifted(c, olp) ==
    View([s \in 0 .. (c.t_max - 1) |-> olp[s + 1]], c.t_max, c.n_worker)

\* line 155: old_log_probs.view(-1, *old_log_probs.size()[2:]), all t_max + 1
\* rows of it
OldLogProbsView(c, olp) == View(olp, c.t_max + 1, c.n_worker)

\* line 163: advantages.view(-1, 1)
AdvantagesView(c, adv) == View(adv, c.t_max, c.n_worker)

\* the observations the network can be given
ObservationValues ==
    blackbox.reset_obs
        \cup {MaskedState(o.obs, Mask(o.done)) : o \in blackbox.outcomes}

\* lines 150-174: one minibatch, to the model.update call.  The network is
\* a function of its input: it gives one log-probability per observation.
Minibatch ==
    /\ pc = "minibatch"
    /\ sampler # <<>>
    /\ LET indices == Head(sampler)
           old == Gather(OldLogProbsView(cfg, old_log_probs), indices)
           target == Gather(AdvantagesView(cfg, advantages), indices)
           states == Gather(StatesView(cfg, observations), indices)
       IN  \E net \in [ObservationValues -> blackbox.new_log_probs] :
              LET new == [p \in 1 .. Len(indices) |-> net[states[p]]]
                  ratio == [p \in 1 .. Len(indices) |-> Ratio(new[p], old[p])]
                  objective == [p \in 1 .. Len(indices) |->
                                   Objective(cfg, ratio[p], target[p])]
              IN  minibatch' =
                     [indices |-> indices,
                      states_batch |-> states,
                      actions_batch |->
                          Gather(ActionsView(cfg, actions), indices),
                      return_batch |->
                          Gather(ReturnsView(cfg, returns), indices),
                      old_log_probs_batch |-> old,
                      advantage_target |-> target,
                      new_log_probs |-> new,
                      ratio |-> ratio,
                      objective |-> objective,
                      nan |-> advantages_nan,
                      action_loss |-> ActionLoss(objective)]
    /\ updates' = updates + 1
    /\ sampler' = Tail(sampler)
    /\ epoch' = IF Tail(sampler) = <<>> THEN epoch + 1 ELSE epoch
    /\ pc' = IF Tail(sampler) = <<>>
             THEN AfterBatches(cfg, epoch + 1)
             ELSE "minibatch"
    /\ UNCHANGED <<cfg, blackbox, training, observations, rewards,
                   value_predictions, old_log_probs, returns, actions, masks,
                   advantages, advantages_nan, episode_rewards,
                   final_rewards, best_score, steps, i, step, epoch_batches,
                   lr_zero, saved, env_state, env_done, episode_sum,
                   episode_last, env_steps, completed, evaluations,
                   fwd_value, stopped>>

LatestRowButOne(c) == c.t_max - 1

\* line 178: obs[-1]
LatestRow(c) == c.t_max

\* lines 176-196: the last observation becomes the first of the next rollout
\* (the logging of lines 181-194 changes nothing)
SaveLatest ==
    /\ pc = "save"
    /\ observations' = [observations EXCEPT ![0] = observations[LatestRow(cfg)]]
    /\ pc' = IF EvalDue(cfg, i) THEN "evaluate" ELSE "dump"
    /\ UNCHANGED <<cfg, blackbox, training, rewards, value_predictions,
                   old_log_probs, returns, actions, masks, advantages,
                   advantages_nan, episode_rewards, final_rewards,
                   best_score, steps, i, step, epoch, sampler, epoch_batches,
                   minibatch, lr_zero, saved, env_state, env_done,
                   episode_sum, episode_last, env_steps, updates, completed,
                   evaluations, fwd_value, stopped>>

\* line 197: net.eval()
EvalEnter ==
    /\ pc = "evaluate"
    /\ training' = FALSE
    /\ pc' = "evaluating"
    /\ UNCHANGED <<cfg, blackbox, observations, rewards, value_predictions,
                   old_log_probs, returns, actions, masks, advantages,
                   advantages_nan, episode_rewards, final_rewards,
                   best_score, steps, i, step, epoch, sampler, epoch_batches,
                   minibatch, lr_zero, saved, env_state, env_done,
                   episode_sum, episode_last, env_steps, updates, completed,
                   evaluations, fwd_value, stopped>>

\* the scores and learning rates an evaluation may end with: the score is
\* read only with a score_name, the scheduler steps only with both
EvalScores == IF cfg.score_name THEN blackbox.scores ELSE {0}

EvalRates ==
    IF cfg.score_name /\ cfg.lr_scheduler THEN BOOLEAN ELSE {lr_zero}

EvaluateCall(score, stored_best) ==
    [iter |-> i, index |-> EvalIndex(cfg, i), training |-> training,
     score |-> score, stored |-> stored_best]

\* lines 198-206: evaluate, net.train(), the scheduler's step, the break
EvaluateStop ==
    /\ pc = "evaluating"
    /\ \E score \in EvalScores, lr0 \in EvalRates :
          /\ StopsTraining(cfg, lr0)
          /\ lr_zero' = lr0
          /\ evaluations' = Append(evaluations, EvaluateCall(score, FALSE))
    /\ training' = ModeAfterEvaluate
    /\ stopped' = TRUE
    /\ pc' = "done"
    /\ UNCHANGED <<cfg, blackbox, observations, rewards, value_predictions,
                   old_log_probs, returns, actions, masks, advantages,
                   advantages_nan, episode_rewards, final_rewards,
                   best_score, steps, i, step, epoch, sampler, epoch_batches,
                   minibatch, saved, env_state, env_done, episode_sum,
                   episode_last, env_steps, updates, completed,
                   fwd_value>>

\* lines 198-214: evaluate, net.train(), the scheduler's step, the best model
EvaluateContinue ==
    /\ pc = "evaluating"
    /\ \E score \in EvalScores, lr0 \in EvalRates :
          LET better == cfg.score_name /\ Improvement(cfg, score, best_score)
          IN  /\ ~StopsTraining(cfg, lr0)
              /\ lr_zero' = lr0
              /\ evaluations' = Append(evaluations, EvaluateCall(score, better))
              /\ saved' = IF better THEN store_model(saved, BestModelFile)
                          ELSE saved
              /\ best_score' = IF better THEN [inf |-> 0, v |-> score]
                               ELSE best_score
    /\ training' = ModeAfterEvaluate
    /\ pc' = "dump"
    /\ UNCHANGED <<cfg, blackbox, observations, rewards, value_predictions,
                   old_log_probs, returns, actions, masks, advantages,
                   advantages_nan, episode_rewards, final_rewards, steps, i,
                   step, epoch, sampler, epoch_batches, minibatch, env_state,
                   env_done, episode_sum, episode_last, env_steps, updates,
                   completed, fwd_value, stopped>>

LastUpdateOneMore(c) == c.max_updates + 1

\* line 78: range(1, max_updates + 1)
LastUpdate(c) == c.max_updates

\* lines 216-218 and the loop header of line 78: the dump, the next update.
\* What the last minibatch left behind is not read again (the next iteration
\* assigns every tensor of lines 151-172 before it reads it): the model
\* starts the iteration without it.
EndIteration ==
    /\ pc = "dump"
    /\ saved' = IF i % cfg.dump_interval = 0
                THEN store_model(saved, UpdateModelFile(i))
                ELSE saved
    /\ completed' = completed + 1
    /\ IF i < LastUpdate(cfg)
       THEN /\ i' = i + 1
            /\ step' = 0
            /\ env_steps' = 0
            /\ updates' = 0
            /\ epoch_batches' = <<>>
            /\ minibatch' = EmptyMinibatch
            /\ pc' = "rollout"
       ELSE /\ pc' = "done"
            /\ UNCHANGED <<i, step, env_steps, updates, epoch_batches,
                           minibatch>>
    /\ UNCHANGED <<cfg, blackbox, training, observations, rewards,
                   value_predictions, old_log_probs, returns, actions, masks,
                   advantages, advantages_nan, episode_rewards,
                   final_rewards, best_score, steps, epoch, sampler, lr_zero,
                   env_state, env_done, episode_sum, episode_last,
                   evaluations, fwd_value, stopped>>

Next ==
    \/ TrainSetup
    \/ RolloutStep
    \/ CalcReturns
    \/ StartEpoch
    \/ Minibatch
    \/ SaveLatest
    \/ EvalEnter
    \/ EvaluateStop
    \/ EvaluateContinue
    \/ EndIteration

----------------------------------------------------------------------------
(* Specifications: the same program, under different arguments and         *)
(* collaborators                                                           *)

Flags == BOOLEAN \X BOOLEAN \X BOOLEAN \X BOOLEAN

\* The loop and the evaluation block: every combination of evaluator,
\* lr_scheduler, score_name and high_is_better; the rollout data is plain
EvalConfigs ==
    {Config(sh, 1, 1, 1, 1, Scale \div 5, mu, f[1], ei, f[2], f[3], f[4]) :
        sh \in Shapes(2), mu \in 0 .. MaxUpdates,
        ei \in 1 .. MaxEvalInterval, f \in Flags}

EvalCollaborators ==
    {Collaborators({PlainOutcome}, {1}, {0}, {0}, 0 .. MaxScore)}

Init == InitWith(EvalConfigs, EvalCollaborators)

Spec == Init /\ [][Next]_vars

\* train is sequential code: whenever it can take a step, it does
FairSpec == Init /\ [][Next]_vars /\ WF_vars(Next)

----------------------------------------------------------------------------
(* The evaluation block and the end of train *)

InLoopBody == pc \in {"rollout", "returns", "epoch", "minibatch", "save"}

\* C5: train ends, after at most max_updates update iterations: after exactly
\* max_updates of them unless it stops early, and it stops early only in an
\* iteration i with i % eval_interval = 0, with an evaluator, a score_name
\* and an lr_scheduler, the learning rate being 0 after the scheduler's step
\* on that evaluation's score.
C5_TrainTerminates ==
    /\ <>(pc = "done")
    /\ [](/\ i <= cfg.max_updates
          /\ completed <= cfg.max_updates
          /\ (pc = "done" /\ ~stopped => completed = cfg.max_updates)
          /\ (stopped =>
                /\ pc = "done"
                /\ completed = i - 1
                /\ i % cfg.eval_interval = 0
                /\ cfg.evaluator /\ cfg.score_name /\ cfg.lr_scheduler
                /\ lr_zero
                /\ evaluations # <<>>
                /\ evaluations[Len(evaluations)].iter = i))

C5_StoppedEarly ==
    pc = "done" /\ stopped /\ completed = 2 /\ cfg.max_updates = MaxUpdates

AtLeastAsGood(a, b) == IF cfg.high_is_better THEN a >= b ELSE a <= b

BestSoFar(k) ==
    CHOOSE b \in {evaluations[j].score : j \in 1 .. k} :
        \A j \in 1 .. k : AtLeastAsGood(b, evaluations[j].score)

\* C6: at every evaluation made with a score_name, best_model.pt is stored
\* if and only if the score is at least as good as the score of every
\* earlier evaluation, and best_score is the best score of all evaluations
\* made so far.
C6_BestModelTracksBestScore ==
    cfg.score_name =>
        /\ \A k \in 1 .. Len(evaluations) :
              evaluations[k].stored <=>
                  \A j \in 1 .. (k - 1) :
                      AtLeastAsGood(evaluations[k].score, evaluations[j].score)
        /\ evaluations # <<>> =>
              /\ best_score.inf = 0
              /\ best_score.v = BestSoFar(Len(evaluations))

\* C7: evaluate is called exactly in the iterations i with
\* i % eval_interval = 0, with index i / eval_interval and the network in
\* eval mode; the rollout's forward passes and the updates run in training
\* mode, and the network is in training mode again whenever train leaves
\* the evaluation block, the early stop included.
C7_EvaluationModeAndSchedule ==
    /\ \A k \in 1 .. Len(evaluations) :
          /\ ~evaluations[k].training
          /\ evaluations[k].iter = k * cfg.eval_interval
          /\ evaluations[k].index = k
    /\ pc = "evaluating" =>
          ~training /\ cfg.evaluator /\ i % cfg.eval_interval = 0
    /\ ~cfg.evaluator => evaluations = <<>>
    /\ cfg.evaluator /\ (InLoopBody \/ pc \in {"evaluate", "evaluating"}) =>
          Len(evaluations) = (i - 1) \div cfg.eval_interval
    /\ cfg.evaluator /\ (pc = "dump" \/ (pc = "done" /\ i >= 1)) =>
          Len(evaluations) = i \div cfg.eval_interval
    /\ InLoopBody \/ pc \in {"dump", "done"} => training

C7_StoppedInTrainingMode ==
    /\ pc = "done"
    /\ stopped
    /\ training
    /\ Len(evaluations) = 2
    /\ updates > 0

----------------------------------------------------------------------------
(* The shape of an update iteration: rollout, then epochs of minibatches *)

\* Every rollout shape, batch size and number of epochs; two iterations, the
\* second of them evaluated
CountConfigs ==
    {Config(sh, bs, pe, 1, 1, Scale \div 5, 2, TRUE, 2, TRUE, TRUE, FALSE) :
        sh \in Shapes(MaxTransitions), bs \in 1 .. MaxBatch,
        pe \in 1 .. MaxEpochs}

CountCollaborators == {Collaborators({PlainOutcome}, {1}, {0}, {0}, {0})}

InitCount == InitWith(CountConfigs, CountCollaborators)

SpecCount == InitCount /\ [][Next]_vars

Ceil(a, b) == (a + b - 1) \div b

UpdatesDone == pc \in {"save", "evaluate", "evaluating", "dump", "done"} /\ i >= 1

\* C1: in every iteration env.step is called exactly t_max times before the
\* first model.update, and model.update exactly
\* ppo_epoch * ceil(t_max / batch_size) times before the next iteration's
\* first env.step; after k completed iterations steps = k * t_max.
C1_CallsPerIteration ==
    /\ env_steps <= cfg.t_max
    /\ updates > 0 => env_steps = cfg.t_max
    /\ pc \in {"rollout", "returns"} => updates = 0
    /\ pc = "rollout" => env_steps = step /\ step < cfg.t_max
    /\ UpdatesDone =>
          /\ env_steps = cfg.t_max
          /\ updates = cfg.ppo_epoch * Ceil(cfg.t_max, cfg.batch_size)
    /\ i >= 1 => steps = (i - 1) * cfg.t_max + env_steps
    /\ pc = "rollout" /\ step = 0 => steps = completed * cfg.t_max
    /\ pc = "done" /\ ~stopped => steps = completed * cfg.t_max

C1_TwoIterationsCounted ==
    /\ pc = "done"
    /\ completed = 2
    /\ cfg.n_worker = 1 /\ cfg.t_max = 3 /\ cfg.batch_size = 2
    /\ cfg.ppo_epoch = 2
    /\ updates = 4
    /\ steps = 6

Transitions == 0 .. (cfg.n_worker * cfg.t_max - 1)

Places(idx) ==
    {bp \in (1 .. Len(epoch_batches)) \X (1 .. cfg.batch_size * cfg.n_worker) :
        /\ bp[2] <= Len(epoch_batches[bp[1]])
        /\ epoch_batches[bp[1]][bp[2]] = idx}

Consumed == Len(epoch_batches) - Len(sampler)

\* C4: in each of the ppo_epoch epochs the minibatches partition the
\* rollout: every transition index is in exactly one minibatch, a minibatch
\* holds at most batch_size * n_worker indices, only the last one may hold
\* fewer, and every minibatch of the epoch is used.
C4_MinibatchesPartitionRollout ==
    /\ pc = "minibatch" => epoch_batches # <<>> /\ sampler # <<>>
    /\ epoch_batches # <<>> =>
          /\ \A idx \in Transitions : Cardinality(Places(idx)) = 1
          /\ \A b \in 1 .. Len(epoch_batches) :
                /\ \A p \in 1 .. Len(epoch_batches[b]) :
                      epoch_batches[b][p] \in Transitions
                /\ Len(epoch_batches[b]) <= cfg.batch_size * cfg.n_worker
                /\ b < Len(epoch_batches) =>
                      Len(epoch_batches[b]) = cfg.batch_size * cfg.n_worker
          /\ sampler = SubSeq(epoch_batches, Consumed + 1, Len(epoch_batches))
          /\ Consumed >= 1 => minibatch.indices = epoch_batches[Consumed]
    /\ pc \in {"epoch", "save"} => sampler = <<>>
    /\ epoch <= cfg.ppo_epoch
    /\ pc \in {"epoch", "minibatch"} => epoch < cfg.ppo_epoch
    /\ pc = "save" => epoch = cfg.ppo_epoch

C4_ShortLastMinibatch ==
    /\ pc = "minibatch"
    /\ epoch = 1
    /\ cfg.n_worker = 1 /\ cfg.t_max = 3 /\ cfg.batch_size = 2
    /\ Len(epoch_batches) = 2
    /\ Len(epoch_batches[2]) = 1
    /\ Consumed = 1

----------------------------------------------------------------------------
(* The returns of a rollout *)

\* Rewards, value predictions and episode ends vary; one evaluated iteration
GaeConfigs ==
    {Config(sh, MaxRollout, 1, g, l, Scale \div 5, 1, TRUE, 1, TRUE, TRUE,
            FALSE) :
        sh \in Shapes(MaxRollout), g \in 1 .. MaxDiscount,
        l \in 1 .. MaxDiscount}

GaeCollaborators ==
    {Collaborators({Outcome(1, 1, FALSE, 0, 0, 0), Outcome(1, 2, FALSE, 1, 0, 0),
                    Outcome(1, 1, TRUE, 1, 0, 0)},
                   {1}, {1}, {0}, {0})}

InitGae == InitWith(GaeConfigs, GaeCollaborators)

SpecGae == InitGae /\ [][Next]_vars

ReturnsComputed == pc \notin {"start", "rollout", "returns"}

ClaimedDelta(s, w) ==
    rewards[s][w] + cfg.gamma * value_predictions[s + 1][w] * masks[s][w]
        - value_predictions[s][w]

RECURSIVE ClaimedGae(_, _)
ClaimedGae(s, w) ==
    IF s = cfg.t_max THEN 0
    ELSE ClaimedDelta(s, w)
             + cfg.gamma * cfg.gae_lambda * masks[s][w] * ClaimedGae(s + 1, w)

\* The return of step s computed from the steps s..last alone, as if the
\* rollout ended with the episode at step last
RECURSIVE EpisodeReturnGae(_, _, _)
EpisodeReturnGae(s, last, w) ==
    IF s = last THEN rewards[s][w] - value_predictions[s][w]
    ELSE ClaimedDelta(s, w)
             + cfg.gamma * cfg.gae_lambda * masks[s][w]
                   * EpisodeReturnGae(s + 1, last, w)

\* C2: after a rollout, returns[s] = value_predictions[s] + gae_s for every
\* worker and step, with gae_{t_max} = 0,
\* gae_s = delta_s + gamma * gae_lambda * masks[s] * gae_{s+1} and
\* delta_s = rewards[s] + gamma * value_predictions[s+1] * masks[s]
\* - value_predictions[s], the last value prediction being forward_value
\* of the last stored observation; where the episode ended at step s,
\* returns[s] = rewards[s] and no later step contributes to the returns at
\* or before s.
C2_ReturnsAreGae ==
    ReturnsComputed =>
        /\ fwd_value.arg = observations[cfg.t_max]
        /\ value_predictions[cfg.t_max] = fwd_value.result
        /\ \A w \in Workers(cfg), s \in 0 .. (cfg.t_max - 1) :
              /\ returns[s][w] = value_predictions[s][w] + ClaimedGae(s, w)
              /\ masks[s][w] = 0 =>
                    /\ returns[s][w] = rewards[s][w]
                    /\ \A e \in 0 .. s :
                          returns[e][w] = value_predictions[e][w]
                                              + EpisodeReturnGae(e, s, w)

C2_EpisodeEndsInsideRollout ==
    /\ ReturnsComputed
    /\ cfg.t_max = 3 /\ cfg.gamma = 2 /\ cfg.gae_lambda = 2
    /\ masks[0][0] = 1 /\ masks[1][0] = 0 /\ masks[2][0] = 1
    /\ rewards[2][0] = 2
    /\ value_predictions[3][0] = 1
    /\ returns[2][0] # rewards[2][0]
    /\ returns[0][0] # rewards[0][0]

----------------------------------------------------------------------------
(* Episodes across rollouts *)

\* Observations, rewards and episode ends vary; two iterations, the second
\* of them evaluated
EpisodeConfigs ==
    {Config(sh, MaxEpisodeRollout, 1, 1, 1, Scale \div 5, 2, TRUE, 2, TRUE, TRUE,
            FALSE) :
        sh \in Shapes(MaxEpisodeRollout)}

EpisodeCollaborators ==
    {Collaborators({Outcome(o, o, d, 0, 0, 0) : o \in 1 .. 2, d \in BOOLEAN},
                   {2}, {0}, {0}, {0})}

InitEpisodes == InitWith(EpisodeConfigs, EpisodeCollaborators)

SpecEpisodes == InitEpisodes /\ [][Next]_vars

\* C8: after every rollout step and for every worker, episode_rewards is the
\* sum of the rewards of the worker's running episode (0 right after a step
\* at which it was done) and final_rewards the total reward of its episode
\* that finished last, 0 if none has finished; both persist from one update
\* iteration to the next.
C8_RewardBookkeeping ==
    \A w \in Workers(cfg) :
        /\ episode_rewards[w] = episode_sum[w]
        /\ final_rewards[w] = episode_last[w]
        /\ env_done[w] => episode_rewards[w] = 0

C8_EpisodeSpansIterations ==
    /\ pc = "rollout"
    /\ i = 2
    /\ step = 1
    /\ cfg.t_max = 2
    /\ masks[1][0] = 1
    /\ episode_rewards[0] = 4
    /\ final_rewards[0] = 2

\* C9: at every rollout step the observation fed to the model for a worker
\* is the one the environment returned last for it: that of env.reset at
\* the very first step, otherwise that of the preceding env.step, also from
\* one iteration to the next; all zero if the worker was done at the
\* preceding step.
C9_ModelSeesLatestObservation ==
    pc = "rollout" =>
        \A w \in Workers(cfg) :
            observations[step][w] = IF env_done[w] THEN 0 ELSE env_state[w]

C9_FirstStepOfSecondRollout ==
    /\ pc = "rollout"
    /\ i = 2
    /\ step = 0
    /\ cfg.n_worker = 2
    /\ env_done[0] /\ observations[0][0] = 0 /\ env_state[0] = 2
    /\ ~env_done[1] /\ observations[0][1] = 1

----------------------------------------------------------------------------
(* The minibatch *)

\* Every rollout shape; observations, actions, rewards,
\* value predictions and log-probabilities vary; one evaluated iteration
UpdateConfigs ==
    {Config(sh, MaxBatch, 1, 1, 1, eps, 1, TRUE, 1, TRUE, TRUE, FALSE) :
        sh \in Shapes(MaxTransitions), eps \in {0, Scale \div 5}}

UpdateCollaborators ==
    {Collaborators({Outcome(1, 0, FALSE, 0, 0, 0), Outcome(2, 1, FALSE, 1, 1, -1)},
                   {1}, {0}, {-1, 0}, {0})}

InitUpdate == InitWith(UpdateConfigs, UpdateCollaborators)

SpecUpdate == InitUpdate /\ [][Next]_vars

\* a minibatch of the rollout now in the tensors has been through
\* model.update, and the tensors are as it read them
MinibatchDone == updates > 0 /\ pc \in {"minibatch", "epoch", "save"}

BatchPlaces == 1 .. Len(minibatch.indices)

C10_MinibatchRowsAligned ==
    MinibatchDone =>
        \A p \in BatchPlaces :
            LET k == minibatch.indices[p]
                s == k \div cfg.n_worker
                w == k % cfg.n_worker
            IN  /\ s \in 0 .. (cfg.t_max - 1)
                /\ w \in Workers(cfg)
                /\ minibatch.states_batch[p] = observations[s][w]
                /\ minibatch.actions_batch[p] = actions[s][w]
                /\ minibatch.return_batch[p] = returns[s][w]
                /\ minibatch.advantage_target[p] = advantages[s][w]
                /\ minibatch.old_log_probs_batch[p] = old_log_probs[s][w]

C10_LastTransitionDrawn ==
    /\ MinibatchDone
    /\ cfg.n_worker = 2 /\ cfg.t_max = 2
    /\ \E p \in BatchPlaces : minibatch.indices[p] = 3
    /\ old_log_probs[1][1] = -1 /\ old_log_probs[0][1] = 0
    /\ old_log_probs[1][0] = 0
    /\ observations[1][1] = 1 /\ observations[2][1] = 2
    /\ returns[1][1] = 1 /\ returns[1][0] = 0

====
